---------------------------- MODULE Spec2Model ----------------------------
(***************************************************************************)
(* The staking hook of client/src/hooks/useStaking.ts (the definition of   *)
(* useStaking at lines 551-1329), its callers' refresh entry points, and   *)
(* the ledger, wallet and RPC endpoint it talks to.                        *)
(*                                                                         *)
(* One wallet owner.  The hook's React state is the committed state; a     *)
(* handler (stake, unstake, registerUser, refreshBalances, the connect     *)
(* effect) reads the state through the closure of the render it was        *)
(* created in, so every invocation works on the values captured when it    *)
(* was invoked, and a nested call (stake -> refreshBalances) uses the      *)
(* caller's captured values.  Every await is a step boundary.              *)
(*                                                                         *)
(* Environment: one stake / unstake / registerUser invocation runs at a    *)
(* time and starts after the connect effect's registration check has       *)
(* answered; refreshBalances invocations of other callers, the ledger and  *)
(* the clocks interleave freely with it.                                   *)
(***************************************************************************)
EXTENDS Integers, Sequences, FiniteSets, TLC

(* ------------------------------ bounds -------------------------------- *)
\* whole tokens the owner holds on the ledger (wallet + staked)
MaxTokens == 2
\* largest human amount a caller passes to stake / unstake
MaxAmount == 2
\* blocks a fetched blockhash stays valid (lastValidBlockHeight - height)
BlockWindow == 2

(* ------------------------- program constants -------------------------- *)
\* toBN / fromBN: "Assuming 6 decimals for the token"
TokenDecimals == 6
\* registerUser: let retries = 3
SendRetries == 3
\* connect effect: now - lastUpdateTime < 10000
DebounceMs == 10000
\* connect effect: now - lastUpdateTime > 30000
LongIdleMs == 30000

\* clock step, and the value at which elapsed times saturate (> LongIdleMs)
TickMs == 2 * DebounceMs
ElapsedCap == LongIdleMs + DebounceMs

RECURSIVE Pow10(_)
Pow10(n) == IF n = 0 THEN 1 ELSE 10 * Pow10(n - 1)

\* const toBN = (amount) => new anchor.BN(amount * 10 ** 6)
toBN(amount) == amount * Pow10(TokenDecimals)
\* const fromBN = (amount) => amount.toNumber() / 10 ** 6
\* (the ledger amounts of this model are whole tokens, so the quotient is exact)
fromBN(raw) == raw \div Pow10(TokenDecimals)
\* tokenAccount.value.uiAmount of getTokenAccountBalance
uiAmount(raw) == raw \div Pow10(TokenDecimals)

\* export const DECIMALS = 9 of utils/constants.ts
DECIMALS == 9

\* a human amount that is not a whole number of tokens, as a fraction
Frac(n, d) == [num |-> n, den |-> d]
\* a variant that rounds the product up to the next whole number
ScaleFloor_roundsUp(a, d) ==
  IF Pow10(d) % a.den = 0
  THEN a.num * (Pow10(d) \div a.den)
  ELSE (a.num + (a.den \div Pow10(d)) - 1) \div (a.den \div Pow10(d))
\* new BN(amount * 10 ** d), Math.floor(amount * Math.pow(10, d)): the whole
\* part of the product, for an amount >= 0 whose denominator divides 10^d or
\* is a multiple of it (the product is taken exactly, not in floating point)
ScaleFloor(a, d) ==
  IF Pow10(d) % a.den = 0
  THEN a.num * (Pow10(d) \div a.den)
  ELSE a.num \div (a.den \div Pow10(d))
\* the product amount * 10^d is a whole number
ScaleExact(a, d) ==
  IF Pow10(d) % a.den = 0 THEN TRUE ELSE a.num % (a.den \div Pow10(d)) = 0
\* raw < amount * 10^d, for a whole number raw
LessThanScaled(raw, a, d) ==
  raw < ScaleFloor(a, d) \/ (raw = ScaleFloor(a, d) /\ ~ScaleExact(a, d))

\* toBN of the hook applied to a fraction
toBN_amount(a) == ScaleFloor(a, TokenDecimals)
\* toTokenAmount of utils/anchor.ts: new BN(amount * Math.pow(10, DECIMALS))
toTokenAmount(a) == ScaleFloor(a, DECIMALS)

(* ------------------------------ addresses ------------------------------ *)
PROGRAM_ID == "EnGhdovdYhHk4nsHEJr6gmV5cYfrx53ky19RD56eRRGm"
TOKEN_MINT_ADDRESS == "6f6GFixp6dh2UeMzDZpgR84rWgHu8oQVPWfrUUV94aj4"
VERIFIED_VAULT_ADDRESS == "C9kigNZXbULbg1JiU9Fp5gn8Z5LDL3XNj9hSGpXFZbJY"

RECURSIVE JoinSeeds(_)
JoinSeeds(seeds) ==
  IF seeds = <<>> THEN "" ELSE "/" \o Head(seeds) \o JoinSeeds(Tail(seeds))
\* PublicKey.findProgramAddress(seeds, programId): a hash of the program id
\* and the seeds, taken as collision-free
findProgramAddress(seeds, programId) == "pda:" \o programId \o JoinSeeds(seeds)
\* getAssociatedTokenAddress(mint, owner)
getAssociatedTokenAddress(mint, owner) == "ata:" \o mint \o "/" \o owner

\* findVaultPDA and findVaultAuthorityPDA of the hook: the "global_state" PDA
findVaultPDA == findProgramAddress(<<"global_state">>, PROGRAM_ID)
\* findUserInfoPDA(owner)
findUserInfoPDA(owner) == findProgramAddress(<<"user_info", owner>>, PROGRAM_ID)
\* findTokenVaultPDA of the hook: the token account of the "global_state" PDA
findTokenVaultPDA == getAssociatedTokenAddress(TOKEN_MINT_ADDRESS, findVaultPDA)
\* findVaultPDA of the variant hook: seeds "vault" and the global state
findVaultPDA_globalState == findProgramAddress(<<"vault", findVaultPDA>>, PROGRAM_ID)
\* the vault of getStakingAccounts: seeds "vault" and the token mint
findVaultPDA_tokenMint == findProgramAddress(<<"vault", TOKEN_MINT_ADDRESS>>, PROGRAM_ID)

Amounts == 0 .. MaxAmount
RpcOutcomes == {"ok", "rate_limited", "error"}
\* sendTransaction of the wallet adapter: the signature, the user declining in
\* the wallet, or a send that fails for good (WalletSendTransactionError)
SendOutcomes == {"sent", "rejected", "failed"}
Slots == {"op", "ext"}

VARIABLES
  \* ---- React state of the hook (useState) ----
  publicKey,      \* "none" | "owner"
  tokenBalance, stakedAmount,
  isLoading, isProcessing, isRegistered, isRefreshing,
  sinceUpdate,    \* Date.now() - lastUpdateTime, saturating at ElapsedCap
  transactionStatus, \* status of the TransactionContext: "none" | "success" | "error"
  \* ---- the ledger (authoritative) ----
  ledReg,         \* the owner's user_info account exists
  ledAta,         \* the owner's associated token account exists
  ledToken,       \* raw balance of the owner's token account
  ledStaked,      \* raw userInfo.stakedAmount
  \* ---- the running operation: stake / unstake / registerUser ----
  opPc, opKind, opAmount, opCap, opRetries,
  tx,             \* its transaction object
  opResult,       \* what the last operation returned
  \* ---- refreshBalances invocations, one per caller slot ----
  rPc, rCap,
  rKey,           \* the publicKey each running refreshBalances closed over
  \* ---- the connect effect's checkRegistration ----
  ePc, eCap,
  eAge,           \* Date.now() - now of the running effect, saturating at ElapsedCap
  \* ---- observers (not program state) ----
  submitted,      \* kinds of the transactions the running operation got onto the network
  opRpc,          \* the running operation made a network request
  startLed,       \* the ledger when the running operation was invoked
  confirmEnd,     \* how the running operation's last confirmation wait ended
  sinceRefresh,   \* ms since the last completed refresh, saturating at DebounceMs
  \* ---- building an instruction: its accounts and its amount ----
  ledVault,       \* GlobalState.vault as recorded on the ledger, or "absent"
  ix,             \* the instruction a call site built last
  defaultProvider \* anchor's ambient provider (anchor.setProvider / getProvider)

hookVars == <<publicKey, tokenBalance, stakedAmount, isLoading, isProcessing,
              isRegistered, isRefreshing, sinceUpdate, transactionStatus>>
ledVars == <<ledReg, ledAta, ledToken, ledStaked>>
opVars == <<opPc, opKind, opAmount, opCap, opRetries, tx, opResult,
            submitted, opRpc, startLed, confirmEnd>>
rVars == <<rPc, rCap, rKey>>
eVars == <<ePc, eCap, eAge>>
buildVars == <<ledVault, ix, defaultProvider>>
vars == <<hookVars, ledVars, opVars, rVars, eVars, sinceRefresh, buildVars>>

\* no raw balance was compared with the amount
NoBalance == 0 - 1
NoIx == [site |-> "none", kind |-> "none", owner |-> "none", globalState |-> "none",
         userInfo |-> "none", vault |-> "none", amount |-> Frac(0, 1), decimals |-> 0,
         data |-> 0, balance |-> NoBalance, result |-> "none"]
NoTx == [kind |-> "none", amount |-> 0, state |-> "none", ttl |-> 0, deadline |-> 0, sends |-> 0]
NoCap == [isRefreshing |-> FALSE, isRegistered |-> FALSE, publicKey |-> "none"]
NoEffectCap == [isRefreshing |-> FALSE, isRegistered |-> FALSE, longIdle |-> FALSE,
                publicKey |-> "none"]
NoLed == [reg |-> FALSE, token |-> 0, staked |-> 0]
\* the values a handler created in the current render closes over
Closure == [isRefreshing |-> isRefreshing, isRegistered |-> isRegistered,
            publicKey |-> publicKey]

Min(a, b) == IF a < b THEN a ELSE b
Max(a, b) == IF a > b THEN a ELSE b
InFlight == {s \in Slots : rPc[s] \notin {"idle", "skipped"}}

Init ==
  /\ publicKey = "none"
  /\ tokenBalance = 0 /\ stakedAmount = 0
  /\ isLoading = FALSE /\ isProcessing = FALSE
  /\ isRegistered = FALSE /\ isRefreshing = FALSE
  /\ sinceUpdate = ElapsedCap
  /\ transactionStatus = "none"
  /\ ledReg \in BOOLEAN
  /\ ledAta \in BOOLEAN
  /\ \E s \in 0 .. MaxTokens :
       /\ (~ledReg => s = 0)
       /\ ledToken = (IF ledAta THEN toBN(MaxTokens - s) ELSE 0)
       /\ ledStaked = (IF ledAta THEN toBN(s) ELSE 0)
  /\ opPc = "idle" /\ opKind = "none" /\ opAmount = 0 /\ opCap = NoCap
  /\ opRetries = 0 /\ tx = NoTx /\ opResult = "none"
  /\ rPc = [s \in Slots |-> "idle"]
  /\ rCap = [s \in Slots |-> FALSE]
  /\ rKey = [s \in Slots |-> "none"]
  /\ ePc = "idle" /\ eCap = NoEffectCap /\ eAge = 0
  /\ submitted = <<>> /\ opRpc = FALSE /\ startLed = NoLed /\ confirmEnd = "none"
  /\ sinceRefresh = DebounceMs
  /\ ledVault = VERIFIED_VAULT_ADDRESS /\ ix = NoIx /\ defaultProvider = "unset"

(* ------------------------ checkUserRegistration ------------------------ *)
\* connection.getAccountInfo(userInfoPDA) !== null; any RPC failure is
\* caught and answered false ("assuming not registered")
checkUserRegistration(outcome) == outcome = "ok" /\ ledReg

(* ----------------------- the accounts of each owner -------------------- *)
\* a second wallet: registered, with a token account, holding and staking
\* amounts that no state of the first wallet's accounts shows
OtherTokens == MaxTokens + 1
OtherStaked == MaxTokens + 2
\* what the ledger holds at the addresses derived from key: the userInfo PDA
\* exists, the associated token account exists, their amounts
ledRegOf(key) == IF key = "other" THEN TRUE ELSE ledReg
ledAtaOf(key) == IF key = "other" THEN TRUE ELSE ledAta
ledTokenOf(key) == IF key = "other" THEN toBN(OtherTokens) ELSE ledToken
ledStakedOf(key) == IF key = "other" THEN toBN(OtherStaked) ELSE ledStaked
\* checkUserRegistration of a render whose publicKey is key
checkUserRegistration_of(key, outcome) == outcome = "ok" /\ ledRegOf(key)

(* --------------------------- refreshBalances --------------------------- *)
\* the synchronous head of refreshBalances, run for caller slot s with the
\* caller's captured state: if (!publicKey || isRefreshing) return;
\* setIsRefreshing(true); setIsLoading(true)
refreshBalances_head(s, capRefreshing, capRegistered, capKey) ==
  IF capRefreshing
  THEN /\ rPc' = [rPc EXCEPT ![s] = IF s = "op" THEN "idle" ELSE "skipped"]
       /\ UNCHANGED <<isRefreshing, isLoading, rCap, rKey>>
  ELSE /\ isRefreshing' = TRUE
       /\ isLoading' = TRUE
       /\ rPc' = [rPc EXCEPT ![s] = "token"]
       /\ rCap' = [rCap EXCEPT ![s] = capRegistered]
       /\ rKey' = [rKey EXCEPT ![s] = capKey]


\* finally { setIsLoading(false); setIsRefreshing(false) }
refreshBalances_finally(s) ==
  /\ isLoading' = FALSE
  /\ isRefreshing' = FALSE
  /\ rPc' = [rPc EXCEPT ![s] = "idle"]
  /\ rKey' = [rKey EXCEPT ![s] = "none"]
  /\ sinceRefresh' = 0

\* the operation is over: its locals and observers are dropped
opEndWith(result, processing) ==
  /\ opPc' = "idle" /\ opKind' = "none" /\ opAmount' = 0 /\ opCap' = NoCap
  /\ opRetries' = 0 /\ tx' = NoTx /\ opResult' = result
  /\ submitted' = <<>> /\ opRpc' = FALSE /\ startLed' = NoLed /\ confirmEnd' = "none"
  /\ isProcessing' = processing

\* a variant whose operations have no finally { setIsProcessing(false) }
opEnd_withoutFinally(result) == opEndWith(result, isProcessing)

\* the operation leaves through its finally { setIsProcessing(false) }
opEnd(result) == opEndWith(result, FALSE)

\* the operation goes on to its next await after a network request
opStep(pc, newTx, newSubmitted, newConfirmEnd, newRetries) ==
  /\ opPc' = pc /\ tx' = newTx /\ submitted' = newSubmitted
  /\ confirmEnd' = newConfirmEnd /\ opRetries' = newRetries
  /\ opRpc' = TRUE
  /\ UNCHANGED <<opKind, opAmount, opCap, opResult, startLed>>

\* the end of an invocation of refreshBalances, and of the stake / unstake
\* that awaited it: return signature; finally { setIsProcessing(false) }
refreshBalances_end(s) ==
  /\ refreshBalances_finally(s)
  /\ IF s = "op" THEN opEnd("signature") ELSE UNCHANGED <<opVars, isProcessing>>

\* the invocation goes on to its next await
refreshBalances_goto(s, pc) ==
  /\ rPc' = [rPc EXCEPT ![s] = pc]
  /\ opRpc' = (opRpc \/ s = "op")
  /\ UNCHANGED <<isLoading, isRefreshing, sinceRefresh, isProcessing, opPc, opKind,
                 opAmount, opCap, opRetries, tx, opResult, submitted, startLed,
                 confirmEnd, rKey>>

\* a variant without the try / catch around the query: an answer that is not
\* a balance leaves refreshBalances as an exception
getTokenAccountBalance_throws(s, retry, outcome) ==
  /\ rPc[s] = (IF retry THEN "token_retry" ELSE "token")
  /\ IF outcome = "rate_limited" /\ ~retry
     THEN /\ refreshBalances_goto(s, "token_retry")
          /\ UNCHANGED <<tokenBalance, stakedAmount>>
     ELSE IF outcome = "ok" /\ ledAtaOf(rKey[s])
     THEN /\ tokenBalance' = uiAmount(ledTokenOf(rKey[s]))
          /\ IF rCap[s]
             THEN /\ refreshBalances_goto(s, "info")
                  /\ UNCHANGED stakedAmount
             ELSE /\ stakedAmount' = 0
                  /\ refreshBalances_end(s)
     ELSE /\ rPc' = [rPc EXCEPT ![s] = "threw"]
          /\ UNCHANGED <<tokenBalance, stakedAmount, isLoading, isRefreshing, isProcessing,
                         sinceRefresh, opVars, rKey>>
  /\ UNCHANGED <<buildVars, transactionStatus, publicKey, isRegistered, sinceUpdate, ledVars, eVars, rCap>>

\* a variant whose .catch does not retry a 429
getTokenAccountBalance_noRetry(s, retry, outcome) ==
  /\ rPc[s] = (IF retry THEN "token_retry" ELSE "token")
  /\ tokenBalance' = (IF outcome = "ok" THEN uiAmount(ledTokenOf(rKey[s])) ELSE 0)
  /\ IF rCap[s]
     THEN /\ refreshBalances_goto(s, "info")
          /\ UNCHANGED stakedAmount
     ELSE /\ stakedAmount' = 0
          /\ refreshBalances_end(s)
  /\ UNCHANGED <<buildVars, transactionStatus, publicKey, isRegistered, sinceUpdate, ledVars, eVars, rCap>>

\* connection.getTokenAccountBalance(userATA) answering with outcome, first
\* attempt (retry = FALSE) or the one retry after a 429 (retry = TRUE); then
\* if (isRegistered) the user info is fetched, else setStakedAmount(0)
getTokenAccountBalance(s, retry, outcome) ==
  /\ rPc[s] = (IF retry THEN "token_retry" ELSE "token")
  /\ IF outcome = "rate_limited" /\ ~retry
     THEN /\ refreshBalances_goto(s, "token_retry")
          /\ UNCHANGED <<tokenBalance, stakedAmount>>
     ELSE /\ tokenBalance' = (IF outcome = "ok" /\ ledAtaOf(rKey[s])
                               THEN uiAmount(ledTokenOf(rKey[s])) ELSE 0)
          /\ IF rCap[s]
             THEN /\ refreshBalances_goto(s, "info")
                  /\ UNCHANGED stakedAmount
             ELSE /\ stakedAmount' = 0
                  /\ refreshBalances_end(s)
  /\ UNCHANGED <<buildVars, transactionStatus, publicKey, isRegistered, sinceUpdate, ledVars, eVars, rCap>>

refreshBalances_token(s, retry) ==
  \E outcome \in RpcOutcomes : getTokenAccountBalance(s, retry, outcome)

\* fetchUserInfo(retry): program.account.userInfo.fetch(userInfoPDA); a
\* missing account answers null, every other failure ends in setStakedAmount(0)
fetchUserInfo(s, retry, outcome) ==
  /\ rPc[s] = (IF retry THEN "info_retry" ELSE "info")
  /\ IF outcome = "rate_limited" /\ ~retry
     THEN /\ refreshBalances_goto(s, "info_retry")
          /\ UNCHANGED stakedAmount
     ELSE /\ stakedAmount' = (IF outcome = "ok" /\ ledRegOf(rKey[s])
                               THEN fromBN(ledStakedOf(rKey[s])) ELSE 0)
          /\ refreshBalances_end(s)
  /\ UNCHANGED <<buildVars, transactionStatus, publicKey, tokenBalance, isRegistered, sinceUpdate, ledVars, eVars, rCap>>

refreshBalances_info(s, retry) ==
  \E outcome \in RpcOutcomes : fetchUserInfo(s, retry, outcome)

\* a caller outside the hook (handleRefresh, the components' effects and
\* interval) invokes refreshBalances of the current render
refreshBalances_call ==
  /\ publicKey = "owner"
  /\ rPc["ext"] = "idle"
  /\ refreshBalances_head("ext", Closure.isRefreshing, Closure.isRegistered,
                          Closure.publicKey)
  /\ UNCHANGED <<buildVars, transactionStatus, publicKey, tokenBalance, stakedAmount, isProcessing, isRegistered,
                 sinceUpdate, ledVars, opVars, eVars, sinceRefresh>>

\* an invocation that returned at once has returned to its caller
refreshBalances_skipped ==
  /\ rPc["ext"] = "skipped"
  /\ rPc' = [rPc EXCEPT !["ext"] = "idle"]
  /\ UNCHANGED <<buildVars, hookVars, ledVars, opVars, rCap, rKey, eVars, sinceRefresh>>

(* --------------------------- the connect effect ------------------------ *)
\* useEffect(..., [publicKey]) when the wallet connects
effect_connect ==
  /\ publicKey = "none"
  /\ publicKey' = "owner"
  /\ IF sinceUpdate < DebounceMs
     THEN UNCHANGED eVars
     ELSE /\ ePc' = "check"
          /\ eCap' = [isRefreshing |-> isRefreshing, isRegistered |-> isRegistered,
                      longIdle |-> (sinceUpdate > LongIdleMs), publicKey |-> "owner"]
          /\ eAge' = 0
  /\ UNCHANGED <<buildVars, transactionStatus, tokenBalance, stakedAmount, isLoading, isProcessing,
                 isRegistered, isRefreshing, sinceUpdate, ledVars, opVars, rVars,
                 sinceRefresh>>

\* checkRegistration() of the effect: setIsRegistered, the unawaited
\* refreshBalances() of the effect's render, setLastUpdateTime(now)
checkRegistration(outcome) ==
  /\ ePc = "check"
  /\ rPc["ext"] = "idle"
  /\ LET isUserRegistered == checkUserRegistration_of(eCap.publicKey, outcome) IN
       /\ isRegistered' = isUserRegistered
       /\ IF isUserRegistered \/ eCap.longIdle
          THEN refreshBalances_head("ext", eCap.isRefreshing, eCap.isRegistered,
                                    eCap.publicKey)
          ELSE UNCHANGED <<isRefreshing, isLoading, rPc, rCap, rKey>>
  /\ sinceUpdate' = eAge
  /\ ePc' = "idle" /\ eCap' = NoEffectCap /\ eAge' = 0
  /\ UNCHANGED <<buildVars, transactionStatus, publicKey, tokenBalance, stakedAmount, isProcessing, ledVars,
                 opVars, sinceRefresh>>

effect_checkRegistration ==
  \E outcome \in RpcOutcomes : checkRegistration(outcome)

\* useEffect's else branch when the wallet disconnects
effect_disconnect ==
  /\ publicKey = "owner"
  /\ opPc = "idle" /\ ePc = "idle" /\ \A s \in Slots : rPc[s] = "idle"
  /\ publicKey' = "none"
  /\ tokenBalance' = 0 /\ stakedAmount' = 0 /\ isRegistered' = FALSE
  /\ UNCHANGED <<buildVars, transactionStatus, isLoading, isProcessing, isRefreshing, sinceUpdate,
                 ledVars, opVars, rVars, eVars, sinceRefresh>>

(* -------------------------------- time --------------------------------- *)
\* wall-clock time passes (Date.now())
TickClock ==
  /\ sinceUpdate < ElapsedCap \/ sinceRefresh < DebounceMs \/ (ePc # "idle" /\ eAge < ElapsedCap)
  /\ sinceUpdate' = Min(sinceUpdate + TickMs, ElapsedCap)
  /\ sinceRefresh' = Min(sinceRefresh + TickMs, DebounceMs)
  /\ eAge' = (IF ePc # "idle" THEN Min(eAge + TickMs, ElapsedCap) ELSE eAge)
  /\ UNCHANGED <<buildVars, transactionStatus, publicKey, tokenBalance, stakedAmount, isLoading, isProcessing,
                 isRegistered, isRefreshing, ledVars, opVars, rVars, ePc, eCap>>

(* ------------------------- the running operation ----------------------- *)
InRegisterUser == opPc \in {"r_check", "r_blockhash", "r_send", "r_confirm", "r_verify"}
Landed == tx.state \in {"ok", "err"}

\* the observers of a freshly invoked operation
opObserve ==
  /\ submitted' = <<>>
  /\ opRpc' = FALSE
  /\ startLed' = [reg |-> ledReg, token |-> ledToken, staked |-> ledStaked]
  /\ confirmEnd' = "none"

\* an exception leaves the running function: registerUser rethrows after its
\* finally, stake's catch (regError) turns that into return; stake and
\* unstake rethrow their own
opThrow == opEnd(IF InRegisterUser /\ opKind = "stake" THEN "undefined" ELSE "throw")

\* registerUser returns a truthy value: to its caller, or into stake's
\* "if (regSignature)" branch, which waits 2 s and checks again
registerUser_return(result, processing, newConfirmEnd) ==
  IF opKind = "stake"
  THEN /\ opStep("s_recheck", NoTx, submitted, newConfirmEnd, 0)
       /\ isProcessing' = processing
  ELSE opEndWith(result, processing)

\* a variant that hands confirmTransaction the lastValidBlockHeight of a second
\* getLatestBlockhash made when the wait begins
confirmDeadline_refetched(txTtl, freshTtl) == freshTtl

\* the lastValidBlockHeight handed to confirmTransaction, as blocks still to
\* go: the one fetched together with the transaction's blockhash
confirmDeadline(txTtl, freshTtl) == txTtl

\* const stake = async (amount) => { ... setIsProcessing(true);
\*   let isUserRegistered = await checkUserRegistration()
stake_call(amount) ==
  /\ opPc = "idle" /\ publicKey = "owner" /\ ePc = "idle"
  /\ opPc' = "s_check" /\ opKind' = "stake" /\ opAmount' = amount
  /\ opCap' = Closure /\ opRetries' = 0 /\ opResult' = "none"
  /\ isProcessing' = TRUE
  /\ tx' = NoTx
  /\ opObserve
  /\ UNCHANGED <<buildVars, transactionStatus, publicKey, tokenBalance, stakedAmount, isLoading, isRegistered,
                 isRefreshing, sinceUpdate, ledVars, rVars, eVars, sinceRefresh>>

stake_checkRegistration ==
  /\ opPc = "s_check"
  /\ \E outcome \in RpcOutcomes :
       opStep(IF checkUserRegistration(outcome) THEN "vault" ELSE "r_check",
              tx, submitted, confirmEnd, opRetries)
  /\ UNCHANGED <<buildVars, hookVars, ledVars, rVars, eVars, sinceRefresh>>

\* registerUser invoked by a caller outside the hook
registerUser_call ==
  /\ opPc = "idle" /\ publicKey = "owner" /\ ePc = "idle"
  /\ opPc' = "r_check" /\ opKind' = "register" /\ opAmount' = 0
  /\ opCap' = Closure /\ opRetries' = 0 /\ opResult' = "none"
  /\ tx' = NoTx
  /\ opObserve
  /\ UNCHANGED <<buildVars, hookVars, ledVars, rVars, eVars, sinceRefresh>>

\* registerUser: isAlreadyRegistered = await checkUserRegistration(); if so
\* setIsRegistered(true); return "already-registered"; else
\* setIsProcessing(true) and the registration transaction is built
registerUser_checkRegistration ==
  /\ opPc = "r_check"
  /\ \E outcome \in RpcOutcomes :
       IF checkUserRegistration(outcome)
       THEN /\ isRegistered' = TRUE
            /\ registerUser_return("already-registered", isProcessing, confirmEnd)
       ELSE /\ isProcessing' = TRUE
            /\ opStep("r_blockhash", [NoTx EXCEPT !.kind = "register", !.state = "built"],
                      submitted, confirmEnd, SendRetries)
            /\ UNCHANGED isRegistered
  /\ UNCHANGED <<buildVars, transactionStatus, publicKey, tokenBalance, stakedAmount, isLoading, isRefreshing,
                 sinceUpdate, ledVars, rVars, eVars, sinceRefresh>>

\* const { blockhash, lastValidBlockHeight } = await connection.getLatestBlockhash()
op_getLatestBlockhash ==
  /\ opPc \in {"r_blockhash", "blockhash"}
  /\ \E outcome \in RpcOutcomes :
       IF outcome = "ok"
       THEN /\ opStep(IF opPc = "r_blockhash" THEN "r_send" ELSE "send",
                      [tx EXCEPT !.ttl = BlockWindow], submitted, confirmEnd, opRetries)
            /\ UNCHANGED isProcessing
       ELSE opThrow
  /\ UNCHANGED <<buildVars, transactionStatus, publicKey, tokenBalance, stakedAmount, isLoading, isRegistered,
                 isRefreshing, sinceUpdate, ledVars, rVars, eVars, sinceRefresh>>

\* the wallet signs and sends the transaction object, or fails to
sendTransaction(t, outcome) ==
  IF outcome = "sent"
  THEN [t EXCEPT !.state = "sent", !.sends = @ + 1,
                 !.deadline = confirmDeadline(t.ttl, BlockWindow)]
  ELSE [t EXCEPT !.state = outcome, !.sends = @ + 1]

\* a variant whose loop goes on while retries >= 0
registerUser_send_oneMore ==
  /\ opPc = "r_send"
  /\ \E outcome \in SendOutcomes :
       IF outcome = "sent"
       THEN /\ opStep("r_confirm", sendTransaction(tx, outcome), Append(submitted, tx.kind),
                      confirmEnd, opRetries)
            /\ UNCHANGED isProcessing
       ELSE IF opRetries - 1 < 0
            THEN opThrow
            ELSE /\ opStep("r_send", sendTransaction(tx, outcome), submitted, confirmEnd,
                           opRetries - 1)
                 /\ UNCHANGED isProcessing
  /\ UNCHANGED <<buildVars, transactionStatus, publicKey, tokenBalance, stakedAmount, isLoading, isRegistered,
                 isRefreshing, sinceUpdate, ledVars, rVars, eVars, sinceRefresh>>

\* registerUser: while (retries > 0 && !signature) { try { signature = await
\* handleTransaction(); break } catch { retries--; if (retries === 0) throw err;
\* wait 1.5 s } }
registerUser_send ==
  /\ opPc = "r_send"
  /\ \E outcome \in SendOutcomes :
       IF outcome = "sent"
       THEN /\ opStep("r_confirm", sendTransaction(tx, outcome), Append(submitted, tx.kind),
                      confirmEnd, opRetries)
            /\ UNCHANGED isProcessing
       ELSE IF opRetries - 1 = 0
            THEN opThrow
            ELSE /\ opStep("r_send", sendTransaction(tx, outcome), submitted, confirmEnd,
                           opRetries - 1)
                 /\ UNCHANGED isProcessing
  /\ UNCHANGED <<buildVars, transactionStatus, publicKey, tokenBalance, stakedAmount, isLoading, isRegistered,
                 isRefreshing, sinceUpdate, ledVars, rVars, eVars, sinceRefresh>>

\* a variant that reads confirmation.value.err and throws it
registerUser_confirm_throwsErr ==
  /\ opPc = "r_confirm"
  /\ \/ /\ tx.state = "ok"
        /\ opStep("r_verify", tx, submitted, "confirmed", opRetries)
        /\ UNCHANGED isProcessing
     \/ /\ tx.state = "err"
        /\ opThrow
     \/ /\ ~Landed /\ tx.deadline = 0
        /\ registerUser_return("signature", FALSE, "expired")
  /\ UNCHANGED <<buildVars, transactionStatus, publicKey, tokenBalance, stakedAmount, isLoading, isRegistered,
                 isRefreshing, sinceUpdate, ledVars, rVars, eVars, sinceRefresh>>

\* a variant that, once confirmTransaction resolves, calls setIsRegistered(true)
\* and returns the signature without querying the record; an exception of the
\* wait propagates
registerUser_confirm_unverified ==
  /\ opPc = "r_confirm"
  /\ \/ /\ Landed
        /\ isRegistered' = TRUE
        /\ registerUser_return("signature", FALSE, "confirmed")
     \/ /\ ~Landed /\ tx.deadline = 0
        /\ opThrow
        /\ UNCHANGED isRegistered
  /\ UNCHANGED <<buildVars, transactionStatus, publicKey, tokenBalance, stakedAmount, isLoading,
                 isRefreshing, sinceUpdate, ledVars, rVars, eVars, sinceRefresh>>

\* registerUser: await connection.confirmTransaction({signature, blockhash,
\* lastValidBlockHeight}); an exception of it is caught (confirmErr) and the
\* signature returned
registerUser_confirm ==
  /\ opPc = "r_confirm"
  /\ \/ /\ Landed
        /\ opStep("r_verify", tx, submitted, "confirmed", opRetries)
        /\ UNCHANGED isProcessing
     \/ /\ ~Landed /\ tx.deadline = 0
        /\ registerUser_return("signature", FALSE, "expired")
  /\ UNCHANGED <<buildVars, transactionStatus, publicKey, tokenBalance, stakedAmount, isLoading, isRegistered,
                 isRefreshing, sinceUpdate, ledVars, rVars, eVars, sinceRefresh>>

\* registerUser: wait 1.5 s; verifyRegistration = await checkUserRegistration();
\* if (verifyRegistration) setIsRegistered(true); return signature
verifyRegistration(outcome) ==
  /\ opPc = "r_verify"
  /\ isRegistered' = (isRegistered \/ checkUserRegistration(outcome))
  /\ registerUser_return("signature", FALSE, confirmEnd)
  /\ UNCHANGED <<buildVars, transactionStatus, publicKey, tokenBalance, stakedAmount, isLoading, isRefreshing,
                 sinceUpdate, ledVars, rVars, eVars, sinceRefresh>>

registerUser_verify ==
  \E outcome \in RpcOutcomes : verifyRegistration(outcome)

\* a variant that goes on to stake without looking at the second check
stake_recheckRegistration_unchecked ==
  /\ opPc = "s_recheck"
  /\ opStep("vault", tx, submitted, confirmEnd, opRetries)
  /\ UNCHANGED <<buildVars, hookVars, ledVars, rVars, eVars, sinceRefresh>>

\* stake: if (regSignature) { wait 2 s; isUserRegistered = await
\* checkUserRegistration(); if (!isUserRegistered) return }
stake_recheckRegistration ==
  /\ opPc = "s_recheck"
  /\ \E outcome \in RpcOutcomes :
       IF checkUserRegistration(outcome)
       THEN /\ opStep("vault", tx, submitted, confirmEnd, opRetries)
            /\ UNCHANGED isProcessing
       ELSE opEnd("undefined")
  /\ UNCHANGED <<buildVars, transactionStatus, publicKey, tokenBalance, stakedAmount, isLoading, isRegistered,
                 isRefreshing, sinceUpdate, ledVars, rVars, eVars, sinceRefresh>>

\* a variant without the local check
unstake_rejects_never(amount, cachedStaked) == FALSE

\* unstake's local check: if (amount > stakedAmount) { toast(...); return }
unstake_rejects(amount, cachedStaked) == amount > cachedStaked

\* const unstake = async (amount) => { setIsProcessing(true);
\*   if (amount > stakedAmount) { ...; return } ... findTokenVaultAccount
unstake_call(amount) ==
  /\ opPc = "idle" /\ publicKey = "owner" /\ ePc = "idle"
  /\ IF unstake_rejects(amount, stakedAmount)
     THEN opEnd("insufficient-staked")
     ELSE /\ opPc' = "vault" /\ opKind' = "unstake" /\ opAmount' = amount
          /\ opCap' = Closure /\ opRetries' = 0 /\ opResult' = "none"
          /\ isProcessing' = TRUE
          /\ tx' = NoTx
          /\ opObserve
  /\ UNCHANGED <<buildVars, transactionStatus, publicKey, tokenBalance, stakedAmount, isLoading, isRegistered,
                 isRefreshing, sinceUpdate, ledVars, rVars, eVars, sinceRefresh>>

\* stake / unstake: vaultTokenAccount = await findTokenVaultAccount(connection)
\* (its RPC failures fall back to the constant), then
\* program.methods.stake(toBN(amount)) ... .transaction()
op_buildTransaction ==
  /\ opPc = "vault"
  /\ opStep("blockhash",
            [NoTx EXCEPT !.kind = opKind, !.amount = toBN(opAmount), !.state = "built"],
            submitted, confirmEnd, opRetries)
  /\ UNCHANGED <<buildVars, hookVars, ledVars, rVars, eVars, sinceRefresh>>

\* stake / unstake: signature = await sendTransaction(tx, connection, {skipPreflight})
op_send ==
  /\ opPc = "send"
  /\ \E outcome \in SendOutcomes :
       IF outcome = "sent"
       THEN /\ opStep("confirm", sendTransaction(tx, outcome), Append(submitted, tx.kind),
                      confirmEnd, opRetries)
            /\ UNCHANGED isProcessing
       ELSE opThrow
  /\ UNCHANGED <<buildVars, transactionStatus, publicKey, tokenBalance, stakedAmount, isLoading, isRegistered,
                 isRefreshing, sinceUpdate, ledVars, rVars, eVars, sinceRefresh>>

\* a variant that does not await confirmTransaction
op_confirm_unawaited ==
  /\ opPc = "confirm"
  /\ sinceUpdate' = 0
  /\ refreshBalances_head("op", opCap.isRefreshing, opCap.isRegistered, opCap.publicKey)
  /\ IF opCap.isRefreshing
     THEN opEnd("signature")
     ELSE /\ opStep("refresh", tx, submitted, "confirmed", opRetries)
          /\ UNCHANGED isProcessing
  /\ UNCHANGED <<buildVars, transactionStatus, publicKey, tokenBalance, stakedAmount, isRegistered, ledVars,
                 eVars, sinceRefresh>>

\* a variant that, when the confirmation wait fails, fetches a new blockhash
\* and sends the transaction again by itself
op_confirm_resubmits ==
  /\ opPc = "confirm"
  /\ \/ /\ Landed
        /\ sinceUpdate' = 0
        /\ refreshBalances_head("op", opCap.isRefreshing, opCap.isRegistered, opCap.publicKey)
        /\ IF opCap.isRefreshing
           THEN opEnd("signature")
           ELSE /\ opStep("refresh", tx, submitted, "confirmed", opRetries)
                /\ UNCHANGED isProcessing
     \/ /\ ~Landed /\ tx.deadline = 0
        /\ opStep("blockhash", [tx EXCEPT !.state = "built", !.sends = 0], submitted,
                  "expired", opRetries)
        /\ UNCHANGED <<isProcessing, isRefreshing, isLoading, sinceUpdate, rVars>>
  /\ UNCHANGED <<buildVars, transactionStatus, publicKey, tokenBalance, stakedAmount, isRegistered, ledVars,
                 eVars, sinceRefresh>>

\* stake / unstake: await connection.confirmTransaction({signature, blockhash,
\* lastValidBlockHeight}); setLastUpdateTime(Date.now()); await refreshBalances();
\* return signature
op_confirm ==
  /\ opPc = "confirm"
  /\ \/ /\ Landed
        /\ sinceUpdate' = 0
        /\ refreshBalances_head("op", opCap.isRefreshing, opCap.isRegistered, opCap.publicKey)
        /\ IF opCap.isRefreshing
           THEN opEnd("signature")
           ELSE /\ opStep("refresh", tx, submitted, "confirmed", opRetries)
                /\ UNCHANGED isProcessing
     \/ /\ ~Landed /\ tx.deadline = 0
        /\ opThrow
        /\ UNCHANGED <<isRefreshing, isLoading, sinceUpdate, rVars>>
  /\ UNCHANGED <<buildVars, transactionStatus, publicKey, tokenBalance, stakedAmount, isRegistered, ledVars,
                 eVars, sinceRefresh>>

(* ------------------------------ the ledger ----------------------------- *)
\* the program's registerUser / stake / unstake instructions, and the token
\* program's transfer out of the owner's token account
ledger_accepts ==
  CASE tx.kind = "register" -> ~ledReg
    [] tx.kind = "transfer" -> ledAta /\ tx.amount <= ledToken
    [] tx.kind = "stake" -> ledReg /\ ledAta /\ tx.amount > 0 /\ tx.amount <= ledToken
    [] tx.kind = "unstake" -> ledReg /\ ledAta /\ tx.amount > 0 /\ tx.amount <= ledStaked
    [] OTHER -> FALSE

\* a sent transaction reaches a block before its blockhash expires
ledger_process ==
  /\ tx.state = "sent" /\ tx.ttl > 0
  /\ IF ledger_accepts
     THEN /\ tx' = [tx EXCEPT !.state = "ok"]
          /\ ledReg' = (ledReg \/ tx.kind = "register")
          /\ UNCHANGED ledAta
          /\ ledToken' = (CASE tx.kind \in {"stake", "transfer"} -> ledToken - tx.amount
                            [] tx.kind = "unstake" -> ledToken + tx.amount
                            [] OTHER -> ledToken)
          /\ ledStaked' = (CASE tx.kind = "stake" -> ledStaked + tx.amount
                             [] tx.kind = "unstake" -> ledStaked - tx.amount
                             [] OTHER -> ledStaked)
     ELSE /\ tx' = [tx EXCEPT !.state = "err"]
          /\ UNCHANGED ledVars
  /\ UNCHANGED <<buildVars, hookVars, opPc, opKind, opAmount, opCap, opRetries, opResult,
                 submitted, opRpc, startLed, confirmEnd, rVars, eVars, sinceRefresh>>

\* a block is produced: the transaction's blockhash and the confirmation
\* deadline come one block nearer
TickBlock ==
  /\ tx.state \in {"built", "sent", "rejected", "failed"}
  /\ tx.ttl > 0 \/ tx.deadline > 0
  /\ tx' = [tx EXCEPT !.ttl = Max(@ - 1, 0), !.deadline = Max(@ - 1, 0)]
  /\ UNCHANGED <<buildVars, hookVars, ledVars, opPc, opKind, opAmount, opCap, opRetries, opResult,
                 submitted, opRpc, startLed, confirmEnd, rVars, eVars, sinceRefresh>>

(* ------------------------------------------------------------------------ *)
Next ==
  \/ \E a \in Amounts : stake_call(a)
  \/ stake_checkRegistration
  \/ registerUser_call
  \/ registerUser_checkRegistration
  \/ op_getLatestBlockhash
  \/ registerUser_send
  \/ registerUser_confirm
  \/ registerUser_verify
  \/ stake_recheckRegistration
  \/ \E a \in Amounts : unstake_call(a)
  \/ op_buildTransaction
  \/ op_send
  \/ op_confirm
  \/ \E s \in Slots, retry \in BOOLEAN : refreshBalances_token(s, retry)
  \/ \E s \in Slots, retry \in BOOLEAN : refreshBalances_info(s, retry)
  \/ refreshBalances_call
  \/ refreshBalances_skipped
  \/ effect_connect
  \/ effect_checkRegistration
  \/ effect_disconnect
  \/ ledger_process
  \/ TickBlock
  \/ TickClock

Spec == Init /\ [][Next]_vars


(* ---------------------- the operation alone, fairly -------------------- *)
\* the steps of the running operation and of the refresh it awaits
OpNext ==
  \/ stake_checkRegistration
  \/ registerUser_checkRegistration
  \/ op_getLatestBlockhash
  \/ registerUser_send
  \/ registerUser_confirm
  \/ registerUser_verify
  \/ stake_recheckRegistration
  \/ op_buildTransaction
  \/ op_send
  \/ op_confirm
  \/ \E retry \in BOOLEAN : refreshBalances_token("op", retry)
  \/ \E retry \in BOOLEAN : refreshBalances_info("op", retry)

\* one operation after another with the ledger and the block clock, without
\* the other callers of refreshBalances
NextOp ==
  \/ \E a \in Amounts : stake_call(a)
  \/ registerUser_call
  \/ \E a \in Amounts : unstake_call(a)
  \/ OpNext
  \/ \E retry \in BOOLEAN : refreshBalances_token("ext", retry)
  \/ \E retry \in BOOLEAN : refreshBalances_info("ext", retry)
  \/ effect_connect
  \/ effect_checkRegistration
  \/ ledger_process
  \/ TickBlock

\* every continuation of the operation runs once its promise settles, and
\* blocks keep being produced
OpSpec == Init /\ [][NextOp]_vars /\ WF_vars(OpNext) /\ WF_vars(TickBlock)

(* ----------- the simulated hook that logs to the backend -------------- *)
\* The variant of useStaking that simulates the transaction (sleep(2000)),
\* moves the cached balances itself and posts the transaction to
\* /api/transaction/log.  It has no checks on the amount, so the cached
\* balances are kept within SimLow .. SimHigh by the guard of the call.
SimLow == 0 - MaxAmount
SimHigh == MaxTokens + MaxAmount

SimInit ==
  /\ publicKey = "owner"
  /\ tokenBalance \in 0 .. MaxTokens /\ stakedAmount \in 0 .. MaxTokens
  /\ isLoading = FALSE /\ isProcessing = FALSE
  /\ isRegistered = FALSE /\ isRefreshing = FALSE
  /\ sinceUpdate = ElapsedCap
  /\ transactionStatus = "none"
  /\ ledReg = FALSE /\ ledAta = TRUE /\ ledToken = 0 /\ ledStaked = 0
  /\ opPc = "idle" /\ opKind = "none" /\ opAmount = 0 /\ opCap = NoCap
  /\ opRetries = 0 /\ tx = NoTx /\ opResult = "none"
  /\ rPc = [s \in Slots |-> "idle"]
  /\ rCap = [s \in Slots |-> FALSE]
  /\ rKey = [s \in Slots |-> "none"]
  /\ ePc = "idle" /\ eCap = NoEffectCap /\ eAge = 0
  /\ submitted = <<>> /\ opRpc = FALSE /\ startLed = NoLed /\ confirmEnd = "none"
  /\ sinceRefresh = DebounceMs
  /\ ledVault = VERIFIED_VAULT_ADDRESS /\ ix = NoIx /\ defaultProvider = "unset"

simVars == <<tokenBalance, stakedAmount, isProcessing, transactionStatus,
             opPc, opKind, opAmount, opResult>>
simIdle == <<buildVars, publicKey, isLoading, isRegistered, isRefreshing, sinceUpdate, ledVars,
             opCap, opRetries, tx, submitted, opRpc, startLed, confirmEnd,
             rVars, eVars, sinceRefresh>>

\* stake / unstake: setIsProcessing(true); setTransactionStatus({status: null,
\* message: 'Preparing ...'}); await sleep(2000)
sim_call(kind, amount) ==
  /\ opPc = "idle"
  /\ LET d == IF kind = "stake" THEN amount ELSE 0 - amount IN
       /\ tokenBalance - d \in SimLow .. SimHigh
       /\ stakedAmount + d \in SimLow .. SimHigh
  /\ opPc' = "sim_sleep" /\ opKind' = kind /\ opAmount' = amount
  /\ opResult' = "none"
  /\ isProcessing' = TRUE
  /\ transactionStatus' = "none"
  /\ UNCHANGED <<tokenBalance, stakedAmount, simIdle>>

\* setTransactionStatus({status: 'success', ...}); toast;
\* setTokenBalance(prev => prev - amount); setStakedAmount(prev => prev + amount)
sim_apply ==
  /\ opPc = "sim_sleep"
  /\ LET d == IF opKind = "stake" THEN opAmount ELSE 0 - opAmount IN
       /\ tokenBalance' = tokenBalance - d
       /\ stakedAmount' = stakedAmount + d
  /\ transactionStatus' = "success"
  /\ opPc' = "sim_log"
  /\ UNCHANGED <<isProcessing, opKind, opAmount, opResult, simIdle>>

\* await apiRequest('POST', '/api/transaction/log', {...}); return
\* mockSignature; a rejected request goes to catch: setTransactionStatus({status:
\* 'error', ...}); toast; throw error; finally setIsProcessing(false)
apiRequest_log(logged) ==
  /\ opPc = "sim_log"
  /\ IF logged
     THEN /\ opResult' = "signature"
          /\ UNCHANGED transactionStatus
     ELSE /\ opResult' = "throw"
          /\ transactionStatus' = "error"
  /\ opPc' = "idle" /\ opKind' = "none" /\ opAmount' = 0
  /\ isProcessing' = FALSE
  /\ UNCHANGED <<tokenBalance, stakedAmount, simIdle>>

sim_log ==
  \E logged \in BOOLEAN : apiRequest_log(logged)

SimNext ==
  \/ \E kind \in {"stake", "unstake"}, a \in Amounts : sim_call(kind, a)
  \/ sim_apply
  \/ sim_log

SimSpec == SimInit /\ [][SimNext]_vars

(* ------------- the stake that transfers, then calls stake ------------- *)
\* The variant of the hook whose stake, once the owner is registered, sends
\* two transactions: a token transfer of the amount to the vault, awaited,
\* and then the program's stake instruction for the same amount, which it
\* sends without awaiting its confirmation.  Everything before (the existence
\* check, registerUser) and refreshBalances are those of the hook.
TransferInit ==
  /\ publicKey = "owner"
  /\ tokenBalance = 0 /\ stakedAmount = 0
  /\ isLoading = FALSE /\ isProcessing = FALSE
  /\ isRegistered = FALSE /\ isRefreshing = FALSE
  /\ sinceUpdate = ElapsedCap
  /\ transactionStatus = "none"
  /\ ledReg \in BOOLEAN
  /\ ledAta = TRUE
  /\ \E s \in 0 .. MaxTokens :
       /\ (~ledReg => s = 0)
       /\ ledToken = toBN(MaxTokens - s)
       /\ ledStaked = toBN(s)
  /\ opPc = "idle" /\ opKind = "none" /\ opAmount = 0 /\ opCap = NoCap
  /\ opRetries = 0 /\ tx = NoTx /\ opResult = "none"
  /\ rPc = [s \in Slots |-> "idle"]
  /\ rCap = [s \in Slots |-> FALSE]
  /\ rKey = [s \in Slots |-> "none"]
  /\ ePc = "idle" /\ eCap = NoEffectCap /\ eAge = 0
  /\ submitted = <<>> /\ opRpc = FALSE /\ startLed = NoLed /\ confirmEnd = "none"
  /\ sinceRefresh = DebounceMs
  /\ ledVault = VERIFIED_VAULT_ADDRESS /\ ix = NoIx /\ defaultProvider = "unset"

transferIdle == <<buildVars, transactionStatus, publicKey, tokenBalance, stakedAmount,
                  isRegistered, sinceUpdate, ledVars, eVars, sinceRefresh>>

\* stake: tokenAccountInfo = await getTokenAccount(connection, userTokenAccount);
\* if (userTokenBalance < toBN(amount).toNumber()) return; a failed lookup
\* returns as well; then the transfer instruction is created
transferStake_checkBalance ==
  /\ opPc = "vault" /\ opKind = "stake"
  /\ \E outcome \in RpcOutcomes :
       IF outcome = "ok" /\ ledToken >= toBN(opAmount)
       THEN /\ opStep("t_blockhash",
                      [NoTx EXCEPT !.kind = "transfer", !.amount = toBN(opAmount),
                                   !.state = "built"],
                      submitted, confirmEnd, opRetries)
            /\ UNCHANGED isProcessing
       ELSE opEnd("undefined")
  /\ UNCHANGED <<transferIdle, isLoading, isRefreshing, rVars>>

\* { blockhash, lastValidBlockHeight } = await connection.getLatestBlockhash(),
\* for the transfer and then for the stake transaction
transferStake_getLatestBlockhash ==
  /\ opPc \in {"t_blockhash", "ts_blockhash"}
  /\ \E outcome \in RpcOutcomes :
       IF outcome = "ok"
       THEN /\ opStep(IF opPc = "t_blockhash" THEN "t_send" ELSE "ts_send",
                      [tx EXCEPT !.ttl = BlockWindow], submitted, confirmEnd, opRetries)
            /\ UNCHANGED isProcessing
       ELSE opEnd("throw")
  /\ UNCHANGED <<transferIdle, isLoading, isRefreshing, rVars>>

\* transferSignature = await sendTransaction(transferTx, connection, {skipPreflight})
transferStake_sendTransfer ==
  /\ opPc = "t_send"
  /\ \E outcome \in SendOutcomes :
       IF outcome = "sent"
       THEN /\ opStep("t_confirm", sendTransaction(tx, outcome), Append(submitted, tx.kind),
                      confirmEnd, opRetries)
            /\ UNCHANGED isProcessing
       ELSE opEnd("throw")
  /\ UNCHANGED <<transferIdle, isLoading, isRefreshing, rVars>>

\* await connection.confirmTransaction({signature: transferSignature, ...});
\* wait 3 s; stakeTx = program.methods.stake(toBN(amount)) ... .transaction()
transferStake_confirmTransfer ==
  /\ opPc = "t_confirm"
  /\ \/ /\ Landed
        /\ opStep("ts_blockhash",
                  [NoTx EXCEPT !.kind = "stake", !.amount = toBN(opAmount), !.state = "built"],
                  submitted, "confirmed", opRetries)
        /\ UNCHANGED isProcessing
     \/ /\ ~Landed /\ tx.deadline = 0
        /\ opEnd("throw")
  /\ UNCHANGED <<transferIdle, isLoading, isRefreshing, rVars>>

\* signature = await sendTransaction(stakeTx, connection, {skipPreflight});
\* no confirmation is awaited; await refreshBalances(); return transferSignature
transferStake_sendStake ==
  /\ opPc = "ts_send"
  /\ \E outcome \in SendOutcomes :
       IF outcome = "sent"
       THEN /\ refreshBalances_head("op", opCap.isRefreshing, opCap.isRegistered, opCap.publicKey)
            /\ IF opCap.isRefreshing
               THEN opEnd("signature")
               ELSE /\ opStep("refresh", sendTransaction(tx, outcome),
                              Append(submitted, tx.kind), confirmEnd, opRetries)
                    /\ UNCHANGED isProcessing
       ELSE /\ opEnd("throw")
            /\ UNCHANGED <<isLoading, isRefreshing, rVars>>
  /\ UNCHANGED transferIdle

TransferNext ==
  \/ \E a \in Amounts : stake_call(a)
  \/ stake_checkRegistration
  \/ registerUser_checkRegistration
  \/ op_getLatestBlockhash
  \/ registerUser_send
  \/ registerUser_confirm
  \/ registerUser_verify
  \/ stake_recheckRegistration
  \/ transferStake_checkBalance
  \/ transferStake_getLatestBlockhash
  \/ transferStake_sendTransfer
  \/ transferStake_confirmTransfer
  \/ transferStake_sendStake
  \/ \E retry \in BOOLEAN : refreshBalances_token("op", retry)
  \/ \E retry \in BOOLEAN : refreshBalances_info("op", retry)
  \/ ledger_process
  \/ TickBlock

TransferSpec == TransferInit /\ [][TransferNext]_vars

(* ------------- building an instruction: accounts and amount ----------- *)
\* The account resolution and the amount scaling of the call sites that build
\* a stake / unstake instruction, each applied to an owner, a human amount
\* and, where the site reads them, a raw balance and the answer of the RPC
\* endpoint.
Owners == {"owner", "other"}
\* GlobalState.vault is the token account created by the program's
\* initialize instruction from a key its caller signs with; the client learns
\* it only by reading GlobalState
ChainVaults == {VERIFIED_VAULT_ADDRESS, "vaultOfInitialize", "absent"}
\* 0, 1, 1.5 and 2 tokens, and one and a half base units at 6 and at 9 decimals
HumanAmounts ==
  {Frac(0, 1), Frac(1, 1), Frac(3, 2), Frac(2, 1),
   Frac(3, 2 * Pow10(TokenDecimals)), Frac(3, 2 * Pow10(DECIMALS))}
RawBalances == {0, 1, Pow10(TokenDecimals), Pow10(DECIMALS)}
\* what anchor's ambient provider can be when a call site runs: never set, or
\* set by another client of the same page
Providers == {"unset", "walletProvider"}

BuildInit ==
  /\ publicKey \in Owners
  /\ tokenBalance = 0 /\ stakedAmount = 0
  /\ isLoading = FALSE /\ isProcessing = FALSE
  /\ isRegistered = FALSE /\ isRefreshing = FALSE
  /\ sinceUpdate = ElapsedCap
  /\ transactionStatus = "none"
  /\ ledReg = FALSE /\ ledAta = TRUE /\ ledToken = 0 /\ ledStaked = 0
  /\ opPc = "idle" /\ opKind = "none" /\ opAmount = 0 /\ opCap = NoCap
  /\ opRetries = 0 /\ tx = NoTx /\ opResult = "none"
  /\ rPc = [s \in Slots |-> "idle"]
  /\ rCap = [s \in Slots |-> FALSE]
  /\ rKey = [s \in Slots |-> "none"]
  /\ ePc = "idle" /\ eCap = NoEffectCap /\ eAge = 0
  /\ submitted = <<>> /\ opRpc = FALSE /\ startLed = NoLed /\ confirmEnd = "none"
  /\ sinceRefresh = DebounceMs
  /\ ledVault \in ChainVaults
  /\ ix = NoIx
  /\ defaultProvider \in Providers

buildIdle == <<hookVars, ledVars, opVars, rVars, eVars, sinceRefresh, ledVault>>

\* findTokenVaultAccount(connection): GlobalState.vault when the account can
\* be read and parsed, VERIFIED_VAULT_ADDRESS in every other case
findTokenVaultAccount(outcome) ==
  IF outcome = "ok" /\ ledVault # "absent" THEN ledVault ELSE VERIFIED_VAULT_ADDRESS

\* findTokenVaultAccount(connection) reaches anchor.setProvider(readOnlyProvider)
\* when getAccountInfo(globalStatePDA) answers with an account; nothing in it
\* sets the provider back
findTokenVaultAccount_setsProvider(outcome) == outcome = "ok" /\ ledVault # "absent"

\* stake / unstake of the hook: findVaultPDA, findUserInfoPDA(publicKey),
\* findTokenVaultAccount(connection); program.methods.stake(toBN(amount));
\* unstake first compares the amount with the cached staked amount
\* (fromBN of the raw amount staked)
useStaking_build(kind, a, staked, outcome) ==
  /\ ix' = [site |-> "useStaking", kind |-> kind, owner |-> publicKey,
            globalState |-> findVaultPDA,
            userInfo |-> findUserInfoPDA(publicKey),
            vault |-> findTokenVaultAccount(outcome),
            amount |-> a, decimals |-> TokenDecimals, data |-> toBN_amount(a),
            balance |-> IF kind = "unstake" THEN staked ELSE NoBalance,
            result |-> IF kind = "unstake" /\ LessThanScaled(staked, a, TokenDecimals)
                       THEN "insufficient" ELSE "built"]
  /\ defaultProvider' = (IF findTokenVaultAccount_setsProvider(outcome)
                          THEN "readOnlyProvider" ELSE defaultProvider)
  /\ UNCHANGED buildIdle

\* stake of the hook's first definition: vault: vaultPDA (the "global_state"
\* PDA), vaultTokenAccount: findTokenVaultPDA()
useStaking_v1_build(a) ==
  /\ ix' = [site |-> "useStaking_v1", kind |-> "stake", owner |-> publicKey,
            globalState |-> findVaultPDA,
            userInfo |-> findUserInfoPDA(publicKey),
            vault |-> findVaultPDA,
            amount |-> a, decimals |-> TokenDecimals, data |-> toBN_amount(a),
            balance |-> NoBalance, result |-> "built"]
  /\ UNCHANGED <<buildIdle, defaultProvider>>

\* stake of the variant with a balance check: vault = VERIFIED_VAULT_ADDRESS;
\* if (balance < amount * Math.pow(10, DECIMALS)) return null;
\* stake(new BN(Math.floor(amount * Math.pow(10, DECIMALS))))
checkedStake_build(a, balance) ==
  /\ ix' = [site |-> "checkedStake", kind |-> "stake", owner |-> publicKey,
            globalState |-> findVaultPDA,
            userInfo |-> findUserInfoPDA(publicKey),
            vault |-> VERIFIED_VAULT_ADDRESS,
            amount |-> a, decimals |-> DECIMALS, data |-> toTokenAmount(a),
            balance |-> balance,
            result |-> IF LessThanScaled(balance, a, DECIMALS)
                       THEN "insufficient" ELSE "built"]
  /\ UNCHANGED <<buildIdle, defaultProvider>>

\* stake of the variant hook that derives the vault from the seeds "vault"
\* and the global state: stake(toBN(amount)) with vault: vaultPDA
vaultPdaStake_build(a) ==
  /\ ix' = [site |-> "vaultPdaStake", kind |-> "stake", owner |-> publicKey,
            globalState |-> findVaultPDA,
            userInfo |-> findUserInfoPDA(publicKey),
            vault |-> findVaultPDA_globalState,
            amount |-> a, decimals |-> TokenDecimals, data |-> toBN_amount(a),
            balance |-> NoBalance, result |-> "built"]
  /\ UNCHANGED <<buildIdle, defaultProvider>>

\* getStakingAccounts(walletPublicKey, connection) of utils/solana.ts
getStakingAccounts ==
  /\ ix' = [NoIx EXCEPT !.site = "getStakingAccounts", !.kind = "accounts",
                        !.owner = publicKey,
                        !.globalState = findVaultPDA,
                        !.userInfo = findUserInfoPDA(publicKey),
                        !.vault = findVaultPDA_tokenMint,
                        !.result = "built"]
  /\ UNCHANGED <<buildIdle, defaultProvider>>

BuildNext ==
  \/ \E kind \in {"stake", "unstake"}, a \in HumanAmounts, staked \in RawBalances,
        outcome \in RpcOutcomes : useStaking_build(kind, a, staked, outcome)
  \/ \E a \in HumanAmounts : useStaking_v1_build(a)
  \/ \E a \in HumanAmounts, balance \in RawBalances : checkedStake_build(a, balance)
  \/ \E a \in HumanAmounts : vaultPdaStake_build(a)
  \/ getStakingAccounts

BuildSpec == BuildInit /\ [][BuildNext]_vars

(* --------------------- the wallet changes its owner -------------------- *)
\* what the wallet adapter can hand the hook as publicKey
Keys == {"none", "owner", "other"}

\* useEffect(..., [publicKey]) run for another publicKey, at any moment at
\* which no checkRegistration of an earlier run is pending: a key starts
\* checkRegistration unless the last update is less than DebounceMs old and
\* leaves the cached values alone; no key clears them
effect_publicKey(key) ==
  /\ key # publicKey
  /\ ePc = "idle"
  /\ publicKey' = key
  /\ IF key = "none"
     THEN /\ tokenBalance' = 0 /\ stakedAmount' = 0 /\ isRegistered' = FALSE
          /\ UNCHANGED eVars
     ELSE /\ UNCHANGED <<tokenBalance, stakedAmount, isRegistered>>
          /\ IF sinceUpdate < DebounceMs
             THEN UNCHANGED eVars
             ELSE /\ ePc' = "check"
                  /\ eCap' = [isRefreshing |-> isRefreshing, isRegistered |-> isRegistered,
                              longIdle |-> (sinceUpdate > LongIdleMs), publicKey |-> key]
                  /\ eAge' = 0
  /\ UNCHANGED <<buildVars, transactionStatus, isLoading, isProcessing, isRefreshing,
                 sinceUpdate, ledVars, opVars, rVars, sinceRefresh>>

\* the continuations of the effect and of the refresh it starts, every RPC
\* request answered
WalletSteps ==
  \/ checkRegistration("ok")
  \/ getTokenAccountBalance("ext", FALSE, "ok")
  \/ fetchUserInfo("ext", FALSE, "ok")
  \/ refreshBalances_skipped

\* the wallet connects, changes its owner and disconnects while the hook
\* does nothing but what its effect starts
WalletNext ==
  \/ \E key \in Keys : effect_publicKey(key)
  \/ checkRegistration("ok")
  \/ getTokenAccountBalance("ext", FALSE, "ok")
  \/ fetchUserInfo("ext", FALSE, "ok")
  \/ refreshBalances_skipped
  \/ TickClock

\* every continuation runs once its promise settles
WalletSpec == Init /\ [][WalletNext]_vars /\ WF_vars(WalletSteps)

(* ------------- registerUser of the hook's earlier version -------------- *)
registerV1Idle == <<buildVars, transactionStatus, publicKey, tokenBalance, stakedAmount,
                    isLoading, isRefreshing, sinceUpdate, ledVars, rVars, eVars,
                    sinceRefresh>>

\* const registerUser = async () => { if (!publicKey) return; ...
\* setIsProcessing(true); tx = await program.methods.registerUser()...transaction()
registerUser_v1_call ==
  /\ opPc = "idle" /\ publicKey = "owner"
  /\ opPc' = "v1_blockhash" /\ opKind' = "register" /\ opAmount' = 0
  /\ opCap' = Closure /\ opRetries' = SendRetries /\ opResult' = "none"
  /\ isProcessing' = TRUE
  /\ tx' = [NoTx EXCEPT !.kind = "register", !.state = "built"]
  /\ opObserve
  /\ UNCHANGED <<registerV1Idle, isRegistered>>

\* const { blockhash } = await connection.getLatestBlockhash('confirmed');
\* tx.recentBlockhash = blockhash
registerUser_v1_getLatestBlockhash ==
  /\ opPc = "v1_blockhash"
  /\ \E outcome \in RpcOutcomes :
       IF outcome = "ok"
       THEN /\ opStep("v1_send", [tx EXCEPT !.ttl = BlockWindow], submitted, confirmEnd,
                      opRetries)
            /\ UNCHANGED isProcessing
       ELSE opEnd("throw")
  /\ UNCHANGED <<registerV1Idle, isRegistered>>

\* while (retries > 0 && !signature) { try { signature = await
\* sendTransaction(tx, connection); break } catch { retries--;
\* if (retries === 0) throw err; wait 1 s } }
registerUser_v1_send ==
  /\ opPc = "v1_send"
  /\ \E outcome \in SendOutcomes :
       LET sent == [sendTransaction(tx, outcome) EXCEPT !.deadline = 0] IN
         IF outcome = "sent"
         THEN /\ opStep("v1_refetch", sent, Append(submitted, tx.kind), confirmEnd,
                        opRetries)
              /\ UNCHANGED isProcessing
         ELSE IF opRetries - 1 = 0
              THEN opEnd("throw")
              ELSE /\ opStep("v1_send", sent, submitted, confirmEnd, opRetries - 1)
                   /\ UNCHANGED isProcessing
  /\ UNCHANGED <<registerV1Idle, isRegistered>>

\* the argument of confirmTransaction: lastValidBlockHeight:
\* (await connection.getLatestBlockhash()).lastValidBlockHeight
registerUser_v1_refetch ==
  /\ opPc = "v1_refetch"
  /\ \E outcome \in RpcOutcomes :
       IF outcome = "ok"
       THEN /\ opStep("v1_confirm", [tx EXCEPT !.deadline = BlockWindow], submitted,
                      confirmEnd, opRetries)
            /\ UNCHANGED isProcessing
       ELSE opEnd("throw")
  /\ UNCHANGED <<registerV1Idle, isRegistered>>

\* confirmation = await connection.confirmTransaction({signature, blockhash:
\* tx.recentBlockhash, lastValidBlockHeight}); setIsRegistered(true);
\* return signature; an exception of the wait is rethrown
registerUser_v1_confirm ==
  /\ opPc = "v1_confirm"
  /\ \/ /\ Landed
        /\ isRegistered' = TRUE
        /\ opEnd("signature")
     \/ /\ ~Landed /\ tx.deadline = 0
        /\ opEnd("throw")
        /\ UNCHANGED isRegistered
  /\ UNCHANGED registerV1Idle

RegisterV1Next ==
  \/ registerUser_v1_call
  \/ registerUser_v1_getLatestBlockhash
  \/ registerUser_v1_send
  \/ registerUser_v1_refetch
  \/ registerUser_v1_confirm
  \/ ledger_process
  \/ TickBlock

RegisterV1Spec == TransferInit /\ [][RegisterV1Next]_vars

(* ------------------------------- claims -------------------------------- *)
Kinds(seq) == {seq[i] : i \in DOMAIN seq}
OpEnds == opPc # "idle" /\ opPc' = "idle"
Confirming == opPc \in {"r_confirm", "confirm"}

C2_NoRegistrationWhenRegistered ==
  startLed.reg => "register" \notin Kinds(submitted)

\* C3: a stake whose amount is not positive, or exceeds the token balance
\* cached when it was called, makes no network request and builds no
\* transaction.
C3_StakeBlockedLocally ==
  [][\A a \in Amounts :
       (stake_call(a) /\ (a <= 0 \/ a > tokenBalance)) =>
         (opPc' = "idle" /\ ~opRpc' /\ tx' = NoTx)]_vars

C5_SingleRefreshInFlight ==
  /\ Cardinality(InFlight) <= 1
  /\ ~(rPc["ext"] = "skipped" /\ InFlight # {})

\* C6: an invocation of refreshBalances made within DebounceMs of the last
\* completed refresh issues no balance query.
C6_DebouncedRefresh ==
  [][(rPc["ext"] = "idle" /\ sinceRefresh < DebounceMs) => rPc'["ext"] # "token"]_vars

\* C7: when the confirmation wait of stake / unstake ends confirmed, the
\* refresh they request issues a balance query.
C7_ForcedRefreshQueries ==
  [][(opPc = "confirm" /\ tx.state = "ok" /\ opPc' # "confirm") => rPc'["op"] = "token"]_vars

\* C8: when a stake whose transaction the ledger accepted returns its
\* signature, the cached token balance is the ledger balance at the call less
\* the amount and the cached staked amount is the staked amount at the call
\* plus the amount.
C8_SnapshotsAfterStake ==
  [][(OpEnds /\ opKind = "stake" /\ tx.state = "ok" /\ opResult' = "signature") =>
       /\ tokenBalance' = uiAmount(startLed.token) - opAmount
       /\ stakedAmount' = fromBN(startLed.staked) + opAmount]_vars

C10_SentAtMostOnce ==
  tx.sends <= 1

\* C11: once the wallet's signer has declined the operation's transaction, the
\* operation has ended with the failure surfaced: the signer is not asked
\* again and nothing is sent.
C11_NoRetryAfterRejection ==
  [][tx.state = "rejected" => (tx'.sends = tx.sends /\ tx'.state # "sent")]_vars

C13_TerminalFailureNotRetried ==
  [][tx.state = "failed" => (tx'.sends = tx.sends /\ tx'.state # "sent")]_vars

\* C14: a token-balance query answered with a rate-limit error is retried
\* with nothing reported yet; the retried query is the last attempt, and when
\* it succeeds the cached balance is the value it returned.  The same holds
\* for the staked amount read by fetchUserInfo.
C14_OneRetryThenValue ==
  [][\A s \in Slots :
       /\ getTokenAccountBalance(s, FALSE, "rate_limited") =>
            (rPc'[s] = "token_retry" /\ tokenBalance' = tokenBalance)
       /\ getTokenAccountBalance(s, TRUE, "ok") =>
            (tokenBalance' = uiAmount(ledToken) /\ rPc'[s] \in {"info", "idle"})
       /\ (rPc[s] = "token_retry" /\ rPc'[s] # rPc[s]) => rPc'[s] \in {"info", "idle"}
       /\ fetchUserInfo(s, FALSE, "rate_limited") =>
            (rPc'[s] = "info_retry" /\ stakedAmount' = stakedAmount)
       /\ fetchUserInfo(s, TRUE, "ok") =>
            (stakedAmount' = fromBN(ledStaked) /\ rPc'[s] = "idle")]_vars

C14_Witness ==
  \E s \in Slots : rPc[s] = "token_retry" /\ tokenBalance # uiAmount(ledToken)

\* C15: a query that is rate-limited on every attempt is not reported as a
\* value: the refresh does not set the cached token balance or staked amount
\* to zero, and the registration lookup does not mark the owner unregistered.
C15_TransientFailureNotAValue ==
  [][/\ \A s \in Slots :
          /\ getTokenAccountBalance(s, TRUE, "rate_limited") => tokenBalance' = tokenBalance
          /\ fetchUserInfo(s, TRUE, "rate_limited") => stakedAmount' = stakedAmount
     /\ checkRegistration("rate_limited") => isRegistered' = isRegistered]_vars

\* C16: a refresh that finds no token account sets the cached token balance
\* to zero and goes on; a refresh that completes while the owner has no
\* record leaves the cached staked amount zero; in both cases it ends through
\* its finally, with the loading flags cleared.
C16_MissingAccountsReadZero ==
  [][\A s \in Slots :
       /\ \A retry \in BOOLEAN :
            (getTokenAccountBalance(s, retry, "ok") /\ ~ledAta) =>
               (tokenBalance' = 0 /\ rPc'[s] \in {"info", "idle"})
       /\ \A retry \in BOOLEAN :
            (fetchUserInfo(s, retry, "ok") /\ ~ledReg) => stakedAmount' = 0
       /\ (rPc[s] \in {"token", "token_retry", "info", "info_retry"} /\ rPc'[s] # rPc[s]
             /\ (~ledReg \/ ~ledAta)) =>
            /\ rPc'[s] \in {"token_retry", "info", "info_retry", "idle"}
            /\ rPc'[s] = "idle" =>
                 /\ ~isLoading' /\ ~isRefreshing'
                 /\ (~ledReg => stakedAmount' = 0)
                 /\ (~ledAta => tokenBalance' = 0)]_vars

C16_Witness ==
  /\ ~ledAta /\ ~ledReg /\ publicKey = "owner" /\ sinceRefresh = 0
  /\ \A s \in Slots : rPc[s] = "idle"
  /\ tokenBalance = 0 /\ stakedAmount = 0 /\ ~isLoading

\* C17: an operation leaves a confirmation wait, drops a transaction it sent,
\* or ends, only when that transaction has reached a block (confirmed or
\* failed there) or its blockhash has expired.
Terminal == Landed \/ (tx.ttl = 0 /\ tx.deadline = 0)

C20_LogFailureHarmless ==
  [][\A logged \in BOOLEAN :
       apiRequest_log(logged) =>
         /\ opResult' = "signature"
         /\ transactionStatus' = "success"
         /\ tokenBalance' = tokenBalance /\ stakedAmount' = stakedAmount]_vars

\* C21: the instruction a call site built addresses the global state, the
\* owner's record and the vault at the addresses every other call site
\* resolves for them, for the same owner and whatever the RPC endpoint answers.
SiteVaults ==
  {findTokenVaultAccount(outcome) : outcome \in RpcOutcomes}
    \cup {findVaultPDA, VERIFIED_VAULT_ADDRESS, findVaultPDA_globalState,
          findVaultPDA_tokenMint}

C21_SameSeedsEverywhere ==
  ix.site # "none" =>
    /\ ix.globalState = findVaultPDA
    /\ ix.userInfo = findUserInfoPDA(ix.owner)
    /\ \A v \in SiteVaults : ix.vault = v

\* C22: two instructions built by the hook's stake / unstake one after the
\* other for the same owner carry the same addresses, whatever the RPC
\* endpoint answered to either.
C22_VaultIndependentOfRpc ==
  [][(ix.site = "useStaking" /\ ix'.site = "useStaking") =>
       /\ ix'.globalState = ix.globalState
       /\ ix'.userInfo = ix.userInfo
       /\ ix'.vault = ix.vault]_vars

\* C23: an instruction built for stake carries a base-unit amount that is a
\* whole number greater than zero.
C23_PositiveBaseUnits ==
  (ix.kind = "stake" /\ ix.result = "built") => ix.data > 0

\* C24: an instruction built for stake or unstake carries the amount scaled
\* by the token's 9 decimals, so that 1.5 tokens are 1500000000 base units.
C24_ScaledByTokenDecimals ==
  (ix.kind \in {"stake", "unstake"} /\ ix.result = "built") =>
    /\ ix.decimals = DECIMALS
    /\ ix.data = toTokenAmount(ix.amount)
    /\ (ix.amount = Frac(3, 2) => ix.data = 1500000000)

\* n <= amount * 10^d
AtMostScaled(n, a, d) ==
  IF Pow10(d) % a.den = 0
  THEN n <= a.num * (Pow10(d) \div a.den)
  ELSE n <= a.num \div (a.den \div Pow10(d))

\* n >= amount * 10^d
AtLeastScaled(n, a, d) ==
  IF Pow10(d) % a.den = 0
  THEN n >= a.num * (Pow10(d) \div a.den)
  ELSE n > (a.num - 1) \div (a.den \div Pow10(d))

IxChecked == ix.kind \in {"stake", "unstake"} /\ ix.balance # NoBalance

C26_DebitEqualsStakeIncrease ==
  opKind = "stake" =>
    /\ startLed.token - ledToken = ledStaked - startLed.staked
    /\ startLed.token - ledToken \in {0, toBN(opAmount)}

\* C27: when stake or unstake returns its signature, the ledger accepted its
\* transaction: a transaction that landed with a program error is not
\* reported as a success.
C27_SuccessOnlyWithoutError ==
  [][(OpEnds /\ opKind \in {"stake", "unstake"} /\ opResult' = "signature") =>
       tx.state = "ok"]_vars

\* C28: while a register, stake or unstake operation is in flight,
\* isProcessing is true.
C28_ProcessingWhileInFlight ==
  opPc # "idle" => isProcessing

\* C29: a refresh writes the cached token balance or staked amount only while
\* the connected publicKey is the one its query was made for.
C29_WrittenForConnectedOwner ==
  [][\A s \in Slots, retry \in BOOLEAN, outcome \in RpcOutcomes :
       (/\ getTokenAccountBalance(s, retry, outcome) \/ fetchUserInfo(s, retry, outcome)
        /\ rPc'[s] \notin {"token_retry", "info_retry"})
         => rKey[s] = publicKey]_vars

\* C30: once the wallet stays with the new owner, the cached token balance,
\* staked amount and registration flag eventually are that owner's.
C30_NewOwnerEventuallyShown ==
  <>[](publicKey = "other") =>
    <>(/\ isRegistered = ledRegOf("other")
       /\ tokenBalance = uiAmount(ledTokenOf("other"))
       /\ stakedAmount = fromBN(ledStakedOf("other")))

\* C31: while a transaction's confirmation is awaited, the expiry height the
\* wait was given is the expiry of the blockhash attached to the transaction.
C31_ExpiryOfAttachedBlockhash ==
  opPc \in {"r_confirm", "confirm", "v1_confirm"} => tx.deadline = tx.ttl

\* C32: registerUser hands its transaction to sendTransaction at most
\* SendRetries times: a failed attempt before the last is followed by another,
\* the last failed attempt ends registerUser with the error thrown (inside
\* stake, caught there), and a successful one leaves the loop with the
\* signature.  Within one refresh the token balance is queried at most twice
\* and the user info at most twice, the second time only as the retry.
RefreshRank(pc) ==
  CASE pc = "token" -> 4
    [] pc = "token_retry" -> 3
    [] pc = "info" -> 2
    [] pc = "info_retry" -> 1
    [] OTHER -> 0

C32_RetryLoopsBounded ==
  [][/\ (tx'.kind = "register" => tx'.sends <= SendRetries)
     /\ (opPc = "r_send" /\ (tx'.sends # tx.sends \/ opPc' # opPc)) =>
          \/ opPc' = "r_confirm" /\ tx'.state = "sent"
          \/ opPc' = "r_send" /\ tx'.sends = tx.sends + 1 /\ tx'.sends < SendRetries
          \/ /\ opPc' = "idle" /\ tx.sends = SendRetries - 1
             /\ opResult' = (IF opKind = "stake" THEN "undefined" ELSE "throw")
     /\ \A s \in Slots :
          (rPc[s] \notin {"idle", "skipped"} /\ rPc'[s] # rPc[s]) =>
             RefreshRank(rPc'[s]) < RefreshRank(rPc[s])]_vars

C32_Witness ==
  /\ opPc = "r_send" /\ tx.sends = SendRetries - 1
  /\ rPc["ext"] = "info_retry"

\* C33: a stake / unstake that resolves the vault with findTokenVaultAccount
\* leaves anchor's ambient provider as it was.
C33_DefaultProviderUntouched ==
  [][(\E kind \in {"stake", "unstake"}, a \in HumanAmounts, staked \in RawBalances,
         outcome \in RpcOutcomes : useStaking_build(kind, a, staked, outcome))
       => defaultProvider' = defaultProvider]_vars

\* C34: the user-info query of a refresh is not sent by the step that takes
\* the answer of its token-balance query: the second query does not wait for
\* the first one's response.
C34_QueriesSentTogether ==
  [][\A s \in Slots :
       (rPc'[s] = "info" /\ rPc[s] # "info") => rPc[s] \notin {"token", "token_retry"}]_vars

\* C35: when no operation is in flight isProcessing is false, and when no
\* refresh is in flight isLoading and isRefreshing are false, however the
\* operation or the refresh ended.
C35_FlagsLowered ==
  /\ opPc = "idle" => ~isProcessing
  /\ InFlight = {} => (~isLoading /\ ~isRefreshing)

C35_Witness ==
  /\ opPc = "idle" /\ opResult = "throw" /\ ~isProcessing
  /\ InFlight = {} /\ sinceRefresh = 0 /\ ~isLoading /\ ~isRefreshing

=============================================================================
